---- MODULE Spec2Model ----
(***************************************************************************)
(* Model of the react-scripts upgrade orchestrator.                        *)
(*   src/upgrade-test.js     UpgradeLogger, BuildTester, PackageBackup     *)
(*   src/src/App/App.js      ReactScriptsUpgrader, main (lines 91-338)     *)
(*                                                                         *)
(* A method is modelled as an operator from a "world" (the files the       *)
(* program reads and writes, and the log artifact) to the set of outcomes  *)
(* the method can have there: [w |-> world after, ret |-> how it ended].   *)
(* ret is "ok" (fell through), "true" / "false" (returned that value) or   *)
(* "throw" (an exception left the method).  The environment decides which  *)
(* external operation fails: a file copy or write, a child process, an     *)
(* append to the log file.                                                 *)
(***************************************************************************)
EXTENDS Integers, Sequences, FiniteSets, TLC

VARIABLES
  pkg,        \* ./package.json                 (the manifest)
  lock,       \* ./package-lock.json            (the lock file)
  pkgBak,     \* ./package.json.backup          (PackageBackup.backupFile)
  lockBak,    \* ./package-lock.json.backup     (PackageBackup.lockBackupFile)
  workflow,   \* ./.github/workflows/deploy.yml
  buildDir,   \* ./build
  log,        \* upgrade.log: the entries appended by the latest call
  logFault,   \* whether an append to upgrade.log has failed so far
  cmds,       \* child processes run by the latest call, with their outcome
  pc,         \* position of the process
  step,       \* index in upgradePath of the step being attempted (0: none)
  exitCode,   \* process exit status, -1 while running
  hist,       \* trace of the calls made by performUpgrade and main
  runs,       \* child processes run so far in the current loop iteration
  pre,        \* the manifest, lock file and workflow file before the run
  snaps,      \* the live files at the successful create() calls, latest last
  last        \* the latest PackageBackup call, its result, the files before it

vars == <<pkg, lock, pkgBak, lockBak, workflow, buildDir, log, logFault, cmds,
          pc, step, exitCode, hist, runs, pre, snaps, last>>

----------------------------------------------------------------------------
(* File contents.                                                          *)

\* A manifest: absent, a partially written file, or a JSON document with
\* the fields the program touches.  fmt is the text layout: "orig" as the
\* author wrote it, "2sp" as JSON.stringify(doc, null, 2) writes it.
Manifest(kind, name, homepage, browserslist, rs, fmt) ==
  [kind |-> kind, name |-> name, homepage |-> homepage,
   browserslist |-> browserslist, rs |-> rs, fmt |-> fmt]

AbsentManifest == Manifest("absent", "-", "-", "-", "-", "-")
PartialManifest == Manifest("partial", "-", "-", "-", "-", "-")
Doc(name, fmt) == Manifest("doc", name, "old", "old", "4.0.3", fmt)

IsDoc(m) == m.kind = "doc"

\* The lock file is never parsed, only copied, removed or rewritten by npm.
AbsentLock == "absent"
NpmLock(m) == "npm:" \o m.rs

\* The world a call starts in.  The log artifact is append-only and never
\* read by the program: the model keeps the entries of one call at a time,
\* and likewise the child processes one call runs.
World ==
  [pkg |-> pkg, lock |-> lock, pkgBak |-> pkgBak, lockBak |-> lockBak,
   workflow |-> workflow, buildDir |-> buildDir, log |-> <<>>,
   logFault |-> logFault, cmds |-> <<>>]

SetWorld(w) ==
  /\ pkg' = w.pkg
  /\ lock' = w.lock
  /\ pkgBak' = w.pkgBak
  /\ lockBak' = w.lockBak
  /\ workflow' = w.workflow
  /\ buildDir' = w.buildDir
  /\ log' = w.log
  /\ logFault' = w.logFault
  /\ cmds' = w.cmds

\* The CI workflow file is opaque text; the model keeps what the three
\* substitutions of updateWorkflowForNewVersion read and write: the
\* node-version directive, the presence of the NODE_OPTIONS export line and
\* how many times "64" follows the token "claude-sequencer".
WorkflowText(kind, node, legacyExport, suffix64) ==
  [kind |-> kind, node |-> node, legacyExport |-> legacyExport,
   suffix64 |-> suffix64]
AbsentWorkflow == WorkflowText("absent", "-", FALSE, 0)
PartialWorkflow == WorkflowText("partial", "-", FALSE, 0)

Absent(file) ==
  CASE file \in {"pkg", "pkgBak"} -> AbsentManifest
    [] file = "workflow" -> AbsentWorkflow
    [] OTHER -> "absent"
Partial(file) ==
  CASE file \in {"pkg", "pkgBak"} -> PartialManifest
    [] file = "workflow" -> PartialWorkflow
    [] OTHER -> "partial"

----------------------------------------------------------------------------
(* Control flow of a method body over sets of outcomes.                    *)

Out(w, ret) == [w |-> w, ret |-> ret]
Ok(w) == {Out(w, "ok")}
Ret(w, v) == {Out(w, v)}
Throw(w) == {Out(w, "throw")}

\* S ; F   -- F runs in every world S fell through to
Seq2(S, F(_)) == UNION {IF o.ret = "ok" THEN F(o.w) ELSE {o} : o \in S}

\* v = S ; F(v)   -- F runs with the value S returned
Let2(S, F(_, _)) ==
  UNION {IF o.ret \in {"true", "false"} THEN F(o.w, o.ret) ELSE {o} : o \in S}

\* try { S } catch { H }
TryCatch(S, H(_)) == UNION {IF o.ret = "throw" THEN H(o.w) ELSE {o} : o \in S}

----------------------------------------------------------------------------
(* Node's fs calls.                                                        *)

\* fs.existsSync(path)
existsSync(w, file) == w[file] # Absent(file)

\* fs.copyFileSync(src, dst): throws when src is missing or on an I/O
\* error; an error met while writing leaves dst partially written.
copyFileSync(w, src, dst) ==
  IF ~existsSync(w, src)
    THEN Throw(w)
    ELSE Ok([w EXCEPT ![dst] = w[src]])
         \cup Throw(w)
         \cup Throw([w EXCEPT ![dst] = Partial(dst)])

\* fs.writeFileSync(path, data): truncates and writes; an error met while
\* writing leaves the file partially written.
writeFileSync(w, file, data) ==
  Ok([w EXCEPT ![file] = data])
  \cup Throw(w)
  \cup Throw([w EXCEPT ![file] = Partial(file)])

\* fs.unlinkSync(path)
unlinkSync(w, file) == Ok([w EXCEPT ![file] = Absent(file)]) \cup Throw(w)

----------------------------------------------------------------------------
(* UpgradeLogger, src/upgrade-test.js:7-32                                 *)

\* log(message, level): appendFileSync adds the entry or throws.
Log(w, level, message) ==
  Ok([w EXCEPT !.log = Append(@, <<level, message>>)])
  \cup Throw([w EXCEPT !.logFault = TRUE])

LogError(w, message) == Log(w, "ERROR", message)
LogSuccess(w, message) == Log(w, "SUCCESS", message)
LogWarn(w, message) == Log(w, "WARN", message)

----------------------------------------------------------------------------
(* PackageBackup, src/upgrade-test.js:87-133                               *)

\* create() that backs up the lock file but not the manifest
create_LockOnly(w) ==
  Seq2(Log(w, "INFO", "Creating package.json backup..."), LAMBDA w1 :
    TryCatch(
      Seq2(IF existsSync(w1, "pkg") THEN Ok(w1) ELSE Throw(w1), LAMBDA w2 :
        Seq2(IF existsSync(w2, "lock")
               THEN copyFileSync(w2, "lock", "lockBak")
               ELSE Ok(w2), LAMBDA w3 :
          Seq2(LogSuccess(w3, "Backup created successfully"), LAMBDA w4 :
            Ret(w4, "true")))),
      LAMBDA w5 :
        Seq2(LogError(w5, "Backup failed"), LAMBDA w6 : Ret(w6, "false"))))

create(w) ==
  Seq2(Log(w, "INFO", "Creating package.json backup..."), LAMBDA w1 :
    TryCatch(
      Seq2(copyFileSync(w1, "pkg", "pkgBak"), LAMBDA w2 :
        Seq2(IF existsSync(w2, "lock")
               THEN copyFileSync(w2, "lock", "lockBak")
               ELSE Ok(w2), LAMBDA w3 :
          Seq2(LogSuccess(w3, "Backup created successfully"), LAMBDA w4 :
            Ret(w4, "true")))),
      LAMBDA w5 :
        Seq2(LogError(w5, "Backup failed"), LAMBDA w6 : Ret(w6, "false"))))

\* restore() that copies the lock file back before the manifest
restore_LockFirst(w) ==
  Seq2(Log(w, "INFO", "Restoring from backup..."), LAMBDA w1 :
    TryCatch(
      Seq2(IF existsSync(w1, "lockBak")
             THEN copyFileSync(w1, "lockBak", "lock")
             ELSE Ok(w1), LAMBDA w2 :
        Seq2(copyFileSync(w2, "pkgBak", "pkg"), LAMBDA w3 :
          Seq2(LogSuccess(w3, "Backup restored successfully"), LAMBDA w4 :
            Ret(w4, "true")))),
      LAMBDA w5 :
        Seq2(LogError(w5, "Restore failed"), LAMBDA w6 : Ret(w6, "false"))))

\* restore() that copies the lock file back but not the manifest
restore_LockOnly(w) ==
  Seq2(Log(w, "INFO", "Restoring from backup..."), LAMBDA w1 :
    TryCatch(
      Seq2(IF existsSync(w1, "pkgBak") THEN Ok(w1) ELSE Throw(w1), LAMBDA w2 :
        Seq2(IF existsSync(w2, "lockBak")
               THEN copyFileSync(w2, "lockBak", "lock")
               ELSE Ok(w2), LAMBDA w3 :
          Seq2(LogSuccess(w3, "Backup restored successfully"), LAMBDA w4 :
            Ret(w4, "true")))),
      LAMBDA w5 :
        Seq2(LogError(w5, "Restore failed"), LAMBDA w6 : Ret(w6, "false"))))

restore(w) ==
  Seq2(Log(w, "INFO", "Restoring from backup..."), LAMBDA w1 :
    TryCatch(
      Seq2(copyFileSync(w1, "pkgBak", "pkg"), LAMBDA w2 :
        Seq2(IF existsSync(w2, "lockBak")
               THEN copyFileSync(w2, "lockBak", "lock")
               ELSE Ok(w2), LAMBDA w3 :
          Seq2(LogSuccess(w3, "Backup restored successfully"), LAMBDA w4 :
            Ret(w4, "true")))),
      LAMBDA w5 :
        Seq2(LogError(w5, "Restore failed"), LAMBDA w6 : Ret(w6, "false"))))

cleanup(w) ==
  TryCatch(
    Seq2(IF existsSync(w, "pkgBak") THEN unlinkSync(w, "pkgBak") ELSE Ok(w),
         LAMBDA w1 :
      Seq2(IF existsSync(w1, "lockBak") THEN unlinkSync(w1, "lockBak")
                                        ELSE Ok(w1), LAMBDA w2 :
        Log(w2, "INFO", "Backup files cleaned up"))),
    LAMBDA w3 : LogWarn(w3, "Cleanup warning"))

----------------------------------------------------------------------------
(* The installs and builds of one iteration of the loop of                 *)
(* App.js:272-306: how many times each command has been run since the      *)
(* iteration began.                                                        *)

Commands == {"install-target", "install-all", "build-modern", "build-legacy"}
NoRuns == [c \in Commands |-> 0]
Tally(r, c) ==
  [k \in Commands |->
     r[k] + Cardinality({i \in DOMAIN c : c[i][1] = k})]

----------------------------------------------------------------------------
(* History kept for the properties: which live files each successful       *)
(* create() saw, and what the latest PackageBackup call was.               *)

NoCall == [op |-> "none", ret |-> "ok", pkgWas |-> AbsentManifest,
           lockWas |-> AbsentLock, n |-> 0]
Call(op, ret) == [op |-> op, ret |-> ret, pkgWas |-> pkg, lockWas |-> lock,
                  n |-> last.n + 1]

\* snaps holds the successful create() calls since which the backup files
\* were touched by nothing else: a restore, a cleanup or a failed create
\* ends the chain.
ChainBroken ==
  \/ last.op \in {"restore", "cleanup"}
  \/ last.op = "create" /\ last.ret # "true"
SnapBase == IF ChainBroken THEN <<>> ELSE snaps
LastTwo(s) == IF Len(s) > 2 THEN SubSeq(s, Len(s) - 1, Len(s)) ELSE s
Snapshot == [pkg |-> pkg, lock |-> lock]

Record(op, ret) ==
  /\ last' = Call(op, ret)
  /\ snaps' = IF op = "create" /\ ret = "true"
                THEN LastTwo(Append(SnapBase, Snapshot))
                ELSE SnapBase

\* The same for a call made by the full upgrade run, where the files the
\* call found are not kept.
RecordInRun(op, ret) ==
  /\ last' = [NoCall EXCEPT !.op = op, !.ret = ret, !.n = last.n + 1]
  /\ snaps' = IF op = "create" /\ ret = "true"
                THEN LastTwo(Append(SnapBase, Snapshot))
                ELSE SnapBase

----------------------------------------------------------------------------
(* PackageBackup used on its own: any sequence of create, restore and      *)
(* cleanup calls, with the project's files changing between them.          *)

\* Number of calls and file changes explored.
MaxCalls == 4

ManifestContents == {Doc("A", "orig"), Doc("B", "orig"), AbsentManifest}
LockContents == {"absent", "L1", "L2"}

RunIdle ==
  /\ workflow = AbsentWorkflow /\ buildDir = "absent" /\ cmds = <<>>
  /\ pc = "api" /\ step = 0 /\ exitCode = -1 /\ hist = <<>>
  /\ runs = NoRuns

BackupInit ==
  /\ pkg \in ManifestContents
  /\ lock \in LockContents
  /\ pkgBak = AbsentManifest
  /\ lockBak = AbsentLock
  /\ log = <<>>
  /\ logFault = FALSE
  /\ RunIdle
  /\ pre = [pkg |-> pkg, lock |-> lock, workflow |-> workflow]
  /\ snaps = <<>>
  /\ last = NoCall

RunVars == <<workflow, buildDir, cmds, pc, step, exitCode, hist, runs, pre>>

BCreate ==
  /\ pc = "api"
  /\ last.n < MaxCalls
  /\ \E o \in create(World) : SetWorld(o.w) /\ Record("create", o.ret)
  /\ UNCHANGED <<pc, step, exitCode, hist, runs, pre>>

BRestore ==
  /\ pc = "api"
  /\ last.n < MaxCalls
  /\ \E o \in restore(World) : SetWorld(o.w) /\ Record("restore", o.ret)
  /\ UNCHANGED <<pc, step, exitCode, hist, runs, pre>>

BCleanup ==
  /\ pc = "api"
  /\ last.n < MaxCalls
  /\ \E o \in cleanup(World) : SetWorld(o.w) /\ Record("cleanup", o.ret)
  /\ UNCHANGED <<pc, step, exitCode, hist, runs, pre>>

\* The project's files change between two calls.
BMutate ==
  /\ pc = "api"
  /\ last.n < MaxCalls
  /\ \/ \E m \in ManifestContents \ {pkg} : pkg' = m /\ lock' = lock
     \/ \E l \in LockContents \ {lock} : lock' = l /\ pkg' = pkg
  /\ Record("mutate", "ok")
  /\ UNCHANGED <<pkgBak, lockBak, log, logFault, RunVars>>

BackupNext == BCreate \/ BRestore \/ BCleanup \/ BMutate

SpecBackup == BackupInit /\ [][BackupNext]_vars

----------------------------------------------------------------------------
(* Child processes run with execSync: a non-zero exit, an I/O error or the *)
(* timeout makes execSync throw.  cmds keeps what was run.                 *)

Ran(w, cmd, result) == [w EXCEPT !.cmds = Append(@, <<cmd, result>>)]

\* rm -rf node_modules package-lock.json        (App.js:143)
execClean(w) ==
  LET removed == [w EXCEPT !.lock = AbsentLock]
  IN  Ok(Ran(removed, "clean", "ok"))
      \cup Throw(Ran(w, "clean", "fail"))
      \cup Throw(Ran(removed, "clean", "fail"))

\* npm install react-scripts@<version> --legacy-peer-deps   (App.js:150)
\* npm saves the version in the manifest and writes the lock file; a child
\* killed by the timeout may already have done so.
execInstallTarget(w, version) ==
  LET saved == [w.pkg EXCEPT !.rs = version]
      installed == [w EXCEPT !.pkg = saved, !.lock = NpmLock(saved)]
  IN  IF IsDoc(w.pkg)
        THEN Ok(Ran(installed, "install-target", "ok"))
             \cup Throw(Ran(w, "install-target", "fail"))
             \cup Throw(Ran(installed, "install-target", "fail"))
        ELSE Throw(Ran(w, "install-target", "fail"))

\* npm install --legacy-peer-deps                (App.js:123, App.js:158)
\* npm leaves the manifest alone; it writes the lock file when there is
\* none it can read, and may rewrite the one it finds.
execInstallAll(w) ==
  LET fresh == [w EXCEPT !.lock = NpmLock(w.pkg)]
  IN  IF IsDoc(w.pkg)
        THEN Ok(Ran(fresh, "install-all", "ok"))
             \cup (IF w.lock \in {AbsentLock, "partial"}
                     THEN {} ELSE Ok(Ran(w, "install-all", "ok")))
             \cup Throw(Ran(w, "install-all", "fail"))
        ELSE Throw(Ran(w, "install-all", "fail"))

\* CI=false npm run build                        (App.js:172)
\* CI=false NODE_OPTIONS=--openssl-legacy-provider npm run build
\*                                               (upgrade-test.js:43)
\* A build that exits with status zero has usually written ./build.
execBuild(w, strategy) ==
  Ok(Ran([w EXCEPT !.buildDir = "dir"], strategy, "ok"))
  \cup Ok(Ran(w, strategy, "ok"))
  \cup Throw(Ran(w, strategy, "fail"))

\* fs.readdirSync('./build'): throws when ./build cannot be listed.
readdirSync(w) == Ok(w) \cup Throw(w)

----------------------------------------------------------------------------
(* BuildTester.testBuild, src/upgrade-test.js:39-66                        *)

testBuild(w) ==
  Seq2(Log(w, "INFO", "Testing build process..."), LAMBDA w1 :
    TryCatch(
      Seq2(execBuild(w1, "build-legacy"), LAMBDA w2 :
        Seq2(LogSuccess(w2, "Build completed successfully"), LAMBDA w3 :
          Seq2(Log(w3, "INFO", "Build output length"), LAMBDA w4 :
            Seq2(IF existsSync(w4, "buildDir")
                   THEN Seq2(readdirSync(w4), LAMBDA w5 :
                          Seq2(Log(w5, "INFO", "Build directory contains"),
                               LAMBDA w6 : Log(w6, "INFO", "Build files")))
                   ELSE Ok(w4), LAMBDA w7 :
              Ret(w7, "true"))))),
      LAMBDA w8 :
        Seq2(LogError(w8, "Build failed"), LAMBDA w9 :
          Seq2(LogError(w9, "Build stderr"), LAMBDA w10 :
            Seq2(LogError(w10, "Build stdout"), LAMBDA w11 :
              Ret(w11, "false"))))))

----------------------------------------------------------------------------
(* ReactScriptsUpgrader, src/src/App/App.js:97-311                         *)

\* this.upgradePath, set by the constructor
upgradePath ==
  << [version |-> "5.0.0",
        description |-> "React Scripts 5.0.0 - Major version with Webpack 5"],
     [version |-> "5.0.1",
        description |-> "React Scripts 5.0.1 - Latest stable in 5.x"] >>

\* JSON.parse(fs.readFileSync('./package.json', 'utf8'))
readManifest(w) == IF IsDoc(w.pkg) THEN Ok(w) ELSE Throw(w)

\* JSON.stringify(packageJson, null, 2): the document in 2-space layout
Stringify2(doc) == [doc EXCEPT !.fmt = "2sp"]

\* updateHomepageUrl() that reports a failed edit with logger.warn
updateHomepageUrl_Warn(w) ==
  Seq2(Log(w, "INFO", "Updating homepage URL for new repository name..."),
       LAMBDA w1 :
    TryCatch(
      Seq2(readManifest(w1), LAMBDA w2 :
        Seq2(writeFileSync(w2, "pkg",
                           Stringify2([w2.pkg EXCEPT !.homepage = "new"])),
             LAMBDA w3 :
          LogSuccess(w3, "Homepage URL updated to claude-sequencer64"))),
      LAMBDA w4 : LogWarn(w4, "Failed to update homepage")))

updateHomepageUrl(w) ==
  Seq2(Log(w, "INFO", "Updating homepage URL for new repository name..."),
       LAMBDA w1 :
    TryCatch(
      Seq2(readManifest(w1), LAMBDA w2 :
        Seq2(writeFileSync(w2, "pkg",
                           Stringify2([w2.pkg EXCEPT !.homepage = "new"])),
             LAMBDA w3 :
          LogSuccess(w3, "Homepage URL updated to claude-sequencer64"))),
      LAMBDA w4 : LogError(w4, "Failed to update homepage")))

installDependencies(w) ==
  Seq2(Log(w, "INFO", "Installing dependencies with legacy peer deps..."),
       LAMBDA w1 :
    TryCatch(
      Seq2(execInstallAll(w1), LAMBDA w2 :
        Seq2(LogSuccess(w2, "Dependencies installed successfully"),
             LAMBDA w3 : Ret(w3, "true"))),
      LAMBDA w4 :
        Seq2(LogError(w4, "Dependency installation failed"), LAMBDA w5 :
          Ret(w5, "false"))))

\* the modern build tried a second time before the legacy build
buildAfterUpgrade_Retry(w) ==
  TryCatch(
    Seq2(execBuild(w, "build-modern"), LAMBDA w1 :
      Seq2(LogSuccess(w1, "Build successful without legacy OpenSSL provider"),
           LAMBDA w2 : Ret(w2, "true"))),
    LAMBDA w3 :
      TryCatch(
        Seq2(execBuild(w3, "build-modern"), LAMBDA w4 : Ret(w4, "true")),
        LAMBDA w5 : testBuild(w5)))

\* App.js:170-183: the modern build, then testBuild() from the catch block
buildAfterUpgrade(w) ==
  TryCatch(
    Seq2(execBuild(w, "build-modern"), LAMBDA w1 :
      Seq2(LogSuccess(w1, "Build successful without legacy OpenSSL provider"),
           LAMBDA w2 : Ret(w2, "true"))),
    LAMBDA w3 :
      Seq2(Log(w3, "INFO", "Build failed without legacy provider, trying with legacy provider..."),
           LAMBDA w4 : testBuild(w4)))

\* upgradeToVersion, App.js:136-198, block by block.  An exception thrown
\* in a block of its try statement is handled by upgradeCatch.

\* App.js:137
upgradeBegin(w, description) ==
  Log(w, "INFO", "Starting upgrade to " \o description)

\* the clean operation without its own try statement
upgradeClean_Fatal(w) ==
  Seq2(Log(w, "INFO", "Cleaning dependencies for fresh install..."),
       LAMBDA w1 : execClean(w1))

\* App.js:141-146
upgradeClean(w) ==
  Seq2(Log(w, "INFO", "Cleaning dependencies for fresh install..."),
       LAMBDA w1 :
    TryCatch(execClean(w1),
             LAMBDA w2 : LogWarn(w2, "Could not clean dependencies")))

\* App.js:149-154
upgradeInstallTarget(w, targetVersion) ==
  Seq2(Log(w, "INFO", "Installing react-scripts@" \o targetVersion),
       LAMBDA w1 : execInstallTarget(w1, targetVersion))

\* App.js:157-164
upgradeInstallAll(w, targetVersion) ==
  Seq2(Log(w, "INFO", "Installing all dependencies..."), LAMBDA w1 :
    Seq2(execInstallAll(w1), LAMBDA w2 :
      LogSuccess(w2, "React Scripts " \o targetVersion \o " installed")))

\* App.js:167-191
upgradeBuild(w, targetVersion) ==
  Seq2(Log(w, "INFO", "Testing build after upgrade..."), LAMBDA w1 :
    Let2(buildAfterUpgrade(w1), LAMBDA w2, buildPassed :
      IF buildPassed = "false"
        THEN Seq2(LogError(w2, "Build failed with react-scripts@"
                                 \o targetVersion),
                  LAMBDA w3 : Ret(w3, "false"))
        ELSE Seq2(LogSuccess(w2, "Build successful with react-scripts@"
                                   \o targetVersion),
                  LAMBDA w4 : Ret(w4, "true"))))

\* App.js:193-197
upgradeCatch(w, targetVersion) ==
  Seq2(LogError(w, "Upgrade to " \o targetVersion \o " failed"), LAMBDA w1 :
    Seq2(LogError(w1, "Error details"), LAMBDA w2 : Ret(w2, "false")))

handleCompatibilityIssues(w) ==
  Seq2(Log(w, "INFO", "Checking for compatibility issues..."), LAMBDA w1 :
    TryCatch(
      Seq2(readManifest(w1), LAMBDA w2 :
        Seq2(writeFileSync(w2, "pkg",
                           Stringify2([w2.pkg EXCEPT !.browserslist = "new"])),
             LAMBDA w3 :
          LogSuccess(w3, "Updated browserslist for compatibility"))),
      LAMBDA w4 : LogWarn(w4, "Could not update browserslist")))

\* The three substitutions of App.js:238-244, in order, on the text read.
PatchWorkflow(text) ==
  IF text.kind = "text"
    THEN [text EXCEPT !.node = IF @ = "16" THEN "18" ELSE @,
                      !.legacyExport = FALSE,
                      !.suffix64 = @ + 1]
    ELSE text

updateWorkflowForNewVersion(w) ==
  Seq2(Log(w, "INFO", "Updating GitHub Actions workflow for newer Node/React Scripts..."),
       LAMBDA w1 :
    TryCatch(
      IF existsSync(w1, "workflow")
        THEN Seq2(writeFileSync(w1, "workflow", PatchWorkflow(w1.workflow)),
                  LAMBDA w3 :
               LogSuccess(w3, "GitHub Actions workflow updated"))
        ELSE Ok(w1),
      LAMBDA w4 : LogWarn(w4, "Could not update workflow")))

----------------------------------------------------------------------------
(* The full upgrade run: main() and performUpgrade(), App.js:254-338.      *)
(* One action per call made by performUpgrade and by main; pc is the call  *)
(* to make next.  An exception leaving a call inside main's try block      *)
(* goes to the catch block of App.js:329.                                  *)

Event(ev, ret, note) == [ev |-> ev, step |-> step, ret |-> ret, note |-> note]

BothBuildsFailed(c) ==
  c = << <<"build-modern", "fail">>, <<"build-legacy", "fail">> >>

\* What hist keeps of a call besides its return value: for
\* upgradeToVersion, whether both builds failed; for an edit of the
\* manifest or of the workflow file, whether it logged its success.
Note(ev, w) ==
  CASE ev = "upgrade" /\ BothBuildsFailed(w.cmds) -> "bothBuildsFailed"
    [] /\ ev \in {"homepage", "compat", "workflow"}
       /\ w.log # <<>>
       /\ w.log[Len(w.log)][1] = "SUCCESS" -> "edited"
    [] OTHER -> "-"

\* Exit status of a Node process (v15 and later) ended by the unhandled
\* rejection of main()'s promise, App.js:337.
UnhandledRejectionExit == 1

Goto(label) == pc' = label /\ exitCode' = exitCode
Exit(status) == pc' = "Exited" /\ exitCode' = status

\* A block whose exceptions go to `handler`.  ev names the call in hist,
\* "-" for a call hist does not keep.
Block(S, ev, handler, Then(_)) ==
  \E o \in S :
    /\ SetWorld(o.w)
    /\ hist' = IF ev = "-" \/ (o.ret = "throw" /\ handler = "upgradeCatch")
                THEN hist
                ELSE Append(hist, Event(ev, o.ret, Note(ev, o.w)))
    /\ runs' = IF o.ret # "throw" /\ Then(o.ret) = "upgrade"
                THEN NoRuns
                ELSE Tally(runs, o.w.cmds)
    /\ IF o.ret = "throw" THEN Goto(handler) ELSE Goto(Then(o.ret))
    /\ IF ev \in {"create", "restore"}
         THEN RecordInRun(ev, o.ret)
         ELSE UNCHANGED <<snaps, last>>

\* A call made inside main's try block.
Call2(S, ev, Then(_)) == Block(S, ev, "catch", Then)

StaleManifest == Doc("S", "orig")
Workflow0 == WorkflowText("text", "16", TRUE, 0)

Init ==
  /\ pkg \in {Doc("A", "orig"), AbsentManifest}
  /\ lock \in {AbsentLock, "L1"}
  /\ \E stale \in BOOLEAN :
       /\ pkgBak = IF stale THEN StaleManifest ELSE AbsentManifest
       /\ lockBak = IF stale THEN "L0" ELSE AbsentLock
  /\ workflow \in {AbsentWorkflow, Workflow0}
  /\ buildDir \in {"absent", "dir"}
  /\ log = <<>>
  /\ logFault = FALSE
  /\ cmds = <<>>
  /\ pc = "construct"
  /\ step = 0
  /\ exitCode = -1
  /\ hist = <<>>
  /\ runs = NoRuns
  /\ pre = [pkg |-> pkg, lock |-> lock, workflow |-> workflow]
  /\ snaps = <<>>
  /\ last = NoCall

\* new ReactScriptsUpgrader(), App.js:314: outside the try block
Construct ==
  /\ pc = "construct"
  /\ \E o \in Log(World, "INFO", "=== React Scripts Upgrade Process Started ===") :
       /\ SetWorld(o.w)
       /\ IF o.ret = "throw"
            THEN Exit(UnhandledRejectionExit)
                 /\ hist' = Append(hist, Event("unhandled", "throw", "-"))
            ELSE Goto("performUpgrade") /\ hist' = hist
  /\ UNCHANGED <<step, runs, pre, snaps, last>>

\* App.js:255-257
PerformUpgradeBegin ==
  /\ pc = "performUpgrade"
  /\ Call2(Seq2(Log(World, "INFO", "=== Starting React Scripts Upgrade Process ==="),
                LAMBDA w1 :
             Seq2(Log(w1, "INFO", "Note: Skipping baseline test"), LAMBDA w2 :
               Log(w2, "INFO", "Upgrading React Scripts will fix these issues"))),
           "-", LAMBDA r : "create")
  /\ UNCHANGED <<step, pre>>

\* App.js:260
CreateBackup ==
  /\ pc = "create"
  /\ Call2(create(World), "create",
           LAMBDA r : IF r = "true" THEN "homepage" ELSE "abort")
  /\ UNCHANGED <<step, pre>>

\* App.js:261-262
Abort ==
  /\ pc = "abort"
  /\ Call2(LogError(World, "Failed to create backup - aborting"),
           "-", LAMBDA r : "mainFail")
  /\ UNCHANGED <<step, pre>>

\* App.js:266
UpdateHomepage ==
  /\ pc = "homepage"
  /\ Call2(updateHomepageUrl(World), "homepage", LAMBDA r : "compat")
  /\ UNCHANGED <<step, pre>>

\* App.js:269, then the first iteration of the loop of App.js:272
HandleCompatibility ==
  /\ pc = "compat"
  /\ Call2(handleCompatibilityIssues(World), "compat", LAMBDA r : "upgrade")
  /\ step' = IF pc' = "upgrade" THEN 1 ELSE step
  /\ UNCHANGED pre

\* App.js:273-275 and 137
UpgradeBegin ==
  /\ pc = "upgrade"
  /\ Call2(Seq2(Log(World, "INFO",
                    "--- Attempting upgrade to " \o upgradePath[step].description),
                LAMBDA w1 : upgradeBegin(w1, upgradePath[step].description)),
           "-", LAMBDA r : "clean")
  /\ UNCHANGED <<step, pre>>

UpgradeClean ==
  /\ pc = "clean"
  /\ Block(upgradeClean(World), "-", "upgradeCatch",
           LAMBDA r : "installTarget")
  /\ UNCHANGED <<step, pre>>

UpgradeInstallTarget ==
  /\ pc = "installTarget"
  /\ Block(upgradeInstallTarget(World, upgradePath[step].version), "-",
           "upgradeCatch", LAMBDA r : "installAll")
  /\ UNCHANGED <<step, pre>>

UpgradeInstallAll ==
  /\ pc = "installAll"
  /\ Block(upgradeInstallAll(World, upgradePath[step].version), "-",
           "upgradeCatch", LAMBDA r : "build")
  /\ UNCHANGED <<step, pre>>

\* the value upgradeToVersion returns decides the branch of App.js:277
UpgradeBuild ==
  /\ pc = "build"
  /\ Block(upgradeBuild(World, upgradePath[step].version), "upgrade",
           "upgradeCatch",
           LAMBDA r : IF r = "true" THEN "upgraded" ELSE "fallback")
  /\ UNCHANGED <<step, pre>>

UpgradeCatch ==
  /\ pc = "upgradeCatch"
  /\ Call2(upgradeCatch(World, upgradePath[step].version), "upgrade",
           LAMBDA r : "fallback")
  /\ UNCHANGED <<step, pre>>

\* App.js:278
Upgraded ==
  /\ pc = "upgraded"
  /\ Call2(LogSuccess(World, "Successfully upgraded to React Scripts "
                               \o upgradePath[step].version),
           "-", LAMBDA r : "workflow")
  /\ UNCHANGED <<step, pre>>

\* App.js:281
UpdateWorkflow ==
  /\ pc = "workflow"
  /\ Call2(updateWorkflowForNewVersion(World), "workflow",
           LAMBDA r : "finalInstall")
  /\ UNCHANGED <<step, pre>>

\* App.js:284
FinalInstall ==
  /\ pc = "finalInstall"
  /\ Call2(installDependencies(World), "-", LAMBDA r : "finalTest")
  /\ UNCHANGED <<step, pre>>

\* App.js:287-288
FinalTest ==
  /\ pc = "finalTest"
  /\ Call2(Seq2(Log(World, "INFO", "Performing final build test..."),
                LAMBDA w1 : testBuild(w1)),
           "finalTest",
           LAMBDA r : IF r = "true" THEN "finalPassed" ELSE "finalFailed")
  /\ UNCHANGED <<step, pre>>

\* App.js:291-293
FinalPassed ==
  /\ pc = "finalPassed"
  /\ Call2(Seq2(LogSuccess(World, "Upgrade completed successfully!"),
                LAMBDA w1 :
             Seq2(Log(w1, "INFO", "Final version: React Scripts "
                                    \o upgradePath[step].version),
                  LAMBDA w2 : Ret(w2, "true"))),
           "performUpgrade", LAMBDA r : "mainSuccess")
  /\ UNCHANGED <<step, pre>>

\* App.js:295-296
FinalFailed ==
  /\ pc = "finalFailed"
  /\ Call2(Seq2(LogError(World, "Final build test failed"),
                LAMBDA w1 : Ret(w1, "false")),
           "performUpgrade", LAMBDA r : "mainFail")
  /\ UNCHANGED <<step, pre>>

\* the failure branch without its restore()
Fallback_NoRestore ==
  /\ pc = "fallback"
  /\ Call2(LogWarn(World, "Upgrade to " \o upgradePath[step].version
                            \o " failed, trying fallback..."),
           "-", LAMBDA r : "reinstall")
  /\ UNCHANGED <<step, pre>>

\* App.js:299
Fallback ==
  /\ pc = "fallback"
  /\ Call2(LogWarn(World, "Upgrade to " \o upgradePath[step].version
                            \o " failed, trying fallback..."),
           "-", LAMBDA r : "restore")
  /\ UNCHANGED <<step, pre>>

\* App.js:302
StepRestore ==
  /\ pc = "restore"
  /\ Call2(restore(World), "restore", LAMBDA r : "reinstall")
  /\ UNCHANGED <<step, pre>>

\* App.js:303-304, then the next iteration or the end of the loop
StepReinstall ==
  /\ pc = "reinstall"
  /\ Call2(installDependencies(World), "-",
           LAMBDA r : IF step < Len(upgradePath) THEN "upgrade"
                                                 ELSE "exhausted")
  /\ step' = IF pc' = "upgrade" THEN step + 1 ELSE step
  /\ UNCHANGED pre

\* App.js:308-309
Exhausted ==
  /\ pc = "exhausted"
  /\ Call2(Seq2(LogError(World, "All upgrade attempts failed"),
                LAMBDA w1 : Ret(w1, "false")),
           "performUpgrade", LAMBDA r : "mainFail")
  /\ UNCHANGED <<step, pre>>

\* the success branch of main cleaning the backup files up before it exits
MainSuccess_Cleanup ==
  /\ pc = "mainSuccess"
  /\ \E o \in Seq2(LogSuccess(World, "React Scripts upgrade completed successfully!"),
                   LAMBDA w1 : cleanup(w1)) :
       /\ SetWorld(o.w)
       /\ IF o.ret = "throw" THEN Goto("catch") ELSE Exit(0)
  /\ UNCHANGED <<step, hist, runs, pre, snaps, last>>

\* App.js:320-322
MainSuccess ==
  /\ pc = "mainSuccess"
  /\ \E o \in Seq2(LogSuccess(World, "React Scripts upgrade completed successfully!"),
                   LAMBDA w1 :
                     Log(w1, "INFO", "You can now commit the changes and deploy")) :
       /\ SetWorld(o.w)
       /\ IF o.ret = "throw" THEN Goto("catch") ELSE Exit(0)
  /\ UNCHANGED <<step, hist, runs, pre, snaps, last>>

\* App.js:324
MainFail ==
  /\ pc = "mainFail"
  /\ Call2(LogError(World, "Upgrade failed - restoring backup"),
           "-", LAMBDA r : "mainRestore")
  /\ UNCHANGED <<step, pre>>

\* the failure branch of main ending with process.exit(0)
MainRestore_ExitZero ==
  /\ pc = "mainRestore"
  /\ \E o \in restore(World) :
       /\ SetWorld(o.w)
       /\ hist' = Append(hist, Event("driverRestore", o.ret, "-"))
       /\ RecordInRun("restore", o.ret)
       /\ IF o.ret = "throw" THEN Goto("catch") ELSE Exit(0)
  /\ UNCHANGED <<step, runs, pre>>

\* App.js:325-326
MainRestore ==
  /\ pc = "mainRestore"
  /\ \E o \in restore(World) :
       /\ SetWorld(o.w)
       /\ hist' = Append(hist, Event("driverRestore", o.ret, "-"))
       /\ RecordInRun("restore", o.ret)
       /\ IF o.ret = "throw" THEN Goto("catch") ELSE Exit(1)
  /\ UNCHANGED <<step, runs, pre>>

\* App.js:330: an exception here leaves main
Catch ==
  /\ pc = "catch"
  /\ \E o \in LogError(World, "Unexpected error") :
       /\ SetWorld(o.w)
       /\ IF o.ret = "throw"
            THEN Exit(UnhandledRejectionExit)
                 /\ hist' = Append(hist, Event("unhandled", "throw", "-"))
            ELSE Goto("catchRestore") /\ hist' = hist
  /\ UNCHANGED <<step, runs, pre, snaps, last>>

\* App.js:331-332
CatchRestore ==
  /\ pc = "catchRestore"
  /\ \E o \in restore(World) :
       /\ SetWorld(o.w)
       /\ hist' = Append(hist, Event("driverRestore", o.ret, "-"))
       /\ RecordInRun("restore", o.ret)
       /\ Exit(IF o.ret = "throw" THEN UnhandledRejectionExit ELSE 1)
  /\ UNCHANGED <<step, runs, pre>>

Next ==
  \/ Construct \/ PerformUpgradeBegin \/ CreateBackup \/ Abort
  \/ UpdateHomepage \/ HandleCompatibility
  \/ UpgradeBegin \/ UpgradeClean \/ UpgradeInstallTarget \/ UpgradeInstallAll
  \/ UpgradeBuild \/ UpgradeCatch
  \/ Upgraded \/ UpdateWorkflow \/ FinalInstall \/ FinalTest
  \/ FinalPassed \/ FinalFailed
  \/ Fallback \/ StepRestore \/ StepReinstall \/ Exhausted
  \/ MainSuccess \/ MainFail \/ MainRestore \/ Catch \/ CatchRestore

Spec == Init /\ [][Next]_vars

\* The run as a process that keeps running: Node runs main() to its end,
\* every await resumes, and every external operation returns.  The run
\* starts in a project with a manifest, a lock file and a workflow file,
\* and no backup files or build output from an earlier run.
FairInit ==
  /\ Init
  /\ pkg = Doc("A", "orig") /\ lock = "L1"
  /\ pkgBak = AbsentManifest
  /\ workflow = Workflow0 /\ buildDir = "absent"

FairSpec == FairInit /\ [][Next]_vars /\ WF_vars(Next)

----------------------------------------------------------------------------
(* Properties of PackageBackup, checked under SpecBackup.                  *)

LatestSnap == snaps[Len(snaps)]
RestoredTrue == last.op = "restore" /\ last.ret = "true"

\* C1 -- Backup round-trip: when create() returned true with the manifest
\* holding M and only the project's files changed since, a restore() that
\* returns true leaves the manifest equal to M.
C1_RoundTrip ==
  (RestoredTrue /\ snaps # <<>>) => pkg = LatestSnap.pkg

\* A restore() returned true after the manifest had been changed.
C1_Witness ==
  /\ RestoredTrue /\ snaps # <<>>
  /\ last.pkgWas # LatestSnap.pkg

\* C2 -- Idempotent create: after two successful create() calls in two
\* different file states S1 then S2, a restore() that returns true writes
\* back only content of S2: the manifest of S2, the lock file of S2 when
\* S2 had one, and nothing over the live lock file when S2 had none.
C2_OnlySecondRecoverable ==
  (RestoredTrue /\ Len(snaps) = 2 /\ snaps[1] # snaps[2])
    => /\ pkg = snaps[2].pkg
       /\ lock = IF snaps[2].lock # AbsentLock THEN snaps[2].lock
                                               ELSE last.lockWas

\* C15 (as amended) -- restore() with no backup manifest leaves the live
\* manifest and lock file as they were and returns false, unless an append
\* to the log failed, in which case the exception of the append may leave
\* restore().
RestoredWithoutBackup == last.op = "restore" /\ ~existsSync(World, "pkgBak")
LiveUntouched == pkg = last.pkgWas /\ lock = last.lockWas
C15_RestoreWithoutBackup ==
  RestoredWithoutBackup
    => /\ last.ret = "false" \/ (last.ret = "throw" /\ logFault)
       /\ LiveUntouched

\* restore() returned false with a live manifest and no backup manifest,
\* after other calls had been made.
C15_Witness ==
  /\ RestoredWithoutBackup /\ last.ret = "false" /\ last.n >= 3
  /\ existsSync(World, "pkg") /\ LiveUntouched

\* C15 as claimed: restore() with no backup manifest returns false,
\* without throwing and without changing the live files.
C15_AsClaimed ==
  RestoredWithoutBackup => last.ret = "false" /\ LiveUntouched

----------------------------------------------------------------------------
(* Properties of the full upgrade run, checked under Spec.                 *)

Exited == pc = "Exited"
Has(ev, ret) == \E k \in DOMAIN hist : hist[k].ev = ev /\ hist[k].ret = ret
Called(ev) == \E k \in DOMAIN hist : hist[k].ev = ev
CreateTrue == Has("create", "true")
CreateFalse == Has("create", "false")
Done == Has("performUpgrade", "true")
DriverRestoreInvoked == Called("driverRestore")
StepCalls == SelectSeq(hist, LAMBDA e : e.ev \in {"upgrade", "restore"})
AllBuildsFailed ==
  \A i \in DOMAIN upgradePath :
    \E k \in DOMAIN hist :
      /\ hist[k].ev = "upgrade" /\ hist[k].step = i
      /\ hist[k].ret = "false" /\ hist[k].note = "bothBuildsFailed"

\* C3 -- Step ordering: when the run succeeds at step k (the first step to
\* pass its build verification and its final verification), it has
\* attempted steps 1..k-1 in path order, each failed attempt followed by
\* one restore() before the next step started, then step k, and it starts
\* no later step.
C3_StepOrdering ==
  Done =>
    /\ Len(StepCalls) = 2 * step - 1
    /\ \A j \in DOMAIN StepCalls :
         IF j % 2 = 1
           THEN /\ StepCalls[j].ev = "upgrade"
                /\ StepCalls[j].step = (j + 1) \div 2
                /\ StepCalls[j].ret = IF j = 2 * step - 1 THEN "true"
                                                          ELSE "false"
           ELSE /\ StepCalls[j].ev = "restore"
                /\ StepCalls[j].step = j \div 2
                /\ StepCalls[j].ret \in {"true", "false"}
    /\ pc \in {"mainSuccess", "catch", "catchRestore", "Exited"}

\* The run succeeded at the second step, after the first one failed.
C3_Witness == Exited /\ exitCode = 0 /\ Done /\ step = 2

\* C4 (as amended) -- All-steps-fail: when create() succeeded and both
\* build strategies failed in every step, the run exits with status 1;
\* unless a log append failed, performUpgrade returned false and the
\* driver called restore(); and the manifest at exit equals the pre-run
\* manifest whenever the driver's restore() returned true.
C4_AllStepsFail ==
  (Exited /\ CreateTrue /\ AllBuildsFailed)
    => /\ exitCode = 1
       /\ ~logFault => Has("performUpgrade", "false") /\ DriverRestoreInvoked
       /\ Has("driverRestore", "true") => pkg = pre.pkg

\* Every step's builds failed and the driver restored the manifest.
C4_Witness ==
  /\ Exited /\ CreateTrue /\ AllBuildsFailed /\ ~logFault
  /\ Has("driverRestore", "true") /\ pkg = pre.pkg

\* C4 as claimed, in the runs where no log append failed: the run ends
\* with performUpgrade returning false and exit status 1, and the manifest
\* at exit equals the pre-run snapshot.
C4_AsClaimed ==
  (Exited /\ CreateTrue /\ AllBuildsFailed /\ ~logFault)
    => /\ exitCode = 1
       /\ Has("performUpgrade", "false")
       /\ pkg = pre.pkg

\* C5 -- on every path of the run that ends in failure after create() was
\* called, the top-level driver invokes restore() before the process
\* exits.
C5_DriverRestoresOnFailure ==
  (Exited /\ exitCode # 0 /\ Called("create")) => DriverRestoreInvoked

\* C6 -- on every failure path of a run whose create() succeeded and whose
\* last restore() returned true, the manifest and the lock file at exit
\* equal their pre-run state (an absent lock file is absent again).
C6_PreRunStateOnFailure ==
  (Exited /\ exitCode # 0 /\ CreateTrue /\ RestoredTrue)
    => pkg = pre.pkg /\ lock = pre.lock

\* C7 (as amended) -- the run exits with status 0 or 1; status 0 only
\* when performUpgrade returned true; and when performUpgrade returned
\* true and no log append failed, the status is 0.
C7_ExitStatus ==
  Exited => /\ exitCode \in {0, 1}
            /\ exitCode = 0 => Done
            /\ (Done /\ ~logFault) => exitCode = 0

\* The run reached DONE and exited with status 0.
C7_Witness == Exited /\ Done /\ exitCode = 0 /\ ~logFault

\* C7 as claimed: the exit status is 0 if and only if the run reached
\* DONE, and 1 in every other outcome.
C7_AsClaimed ==
  Exited => /\ exitCode \in {0, 1}
            /\ exitCode = 0 <=> Done

\* C8 -- Abort-before-mutation, in the runs where no log append failed:
\* when create() returned false, no step was run, no restore was
\* performed, and the manifest and the lock file at exit are what they
\* were before the run.
C8_AbortBeforeMutation ==
  (Exited /\ CreateFalse /\ ~logFault)
    => /\ step = 0
       /\ ~Called("restore") /\ ~DriverRestoreInvoked
       /\ pkg = pre.pkg /\ lock = pre.lock

\* C9 -- Strategy fallback: when the builds of a step have run, the legacy
\* build was attempted if and only if the modern build failed, and the
\* step is recorded as successful if and only if one of them passed.
BuildsRan == cmds # <<>> /\ cmds[1][1] = "build-modern"
ModernPassed == cmds[1][2] = "ok"
LegacyRan == \E k \in DOMAIN cmds : cmds[k][1] = "build-legacy"
LegacyPassed == \E k \in DOMAIN cmds : cmds[k] = <<"build-legacy", "ok">>
C9_StrategyFallback ==
  (pc \in {"upgraded", "fallback", "upgradeCatch"} /\ BuildsRan)
    => /\ LegacyRan <=> ~ModernPassed
       /\ pc = "upgraded" <=> (ModernPassed \/ LegacyPassed)

\* C10 (as amended) -- Non-fatal edit failures: after a successful
\* create(), each cosmetic edit either succeeds or logs its failure, the
\* homepage edit at ERROR level and the browser-support edit at WARN
\* level, and unless a log append failed the run goes on to the first
\* step of the loop.
LastEntry == log[Len(log)]
FinalTestFailed == Has("finalTest", "false")
C11_LastMileFatal ==
  (Exited /\ FinalTestFailed)
    => /\ exitCode = 1
       /\ \A k \in DOMAIN hist : hist[k].step <= hist[Len(hist)].step
       /\ \A k \in DOMAIN hist :
            hist[k].ev = "finalTest" => hist[k].step = step
       /\ DriverRestoreInvoked

\* C12 -- Manifest integrity: in every state of a run the manifest on disk
\* is the original captured by the snapshot (the pre-run manifest) or a
\* complete JSON document; it is never a partially written file.
C12_ManifestIntegrity == pkg = pre.pkg \/ IsDoc(pkg)

\* C13 -- Snapshot before mutation, in the runs where no log append
\* failed: every step of the run that writes or removes the manifest, the
\* lock file or the workflow file is taken after create() has returned
\* true.
LiveFiles == <<pkg, lock, workflow>>
C13_SnapshotBeforeMutation ==
  [][(LiveFiles' # LiveFiles /\ ~logFault') => CreateTrue]_vars

\* C14 -- Single persistent snapshot: create() is called at most once in a
\* run, and once in every run that exits with no log append having
\* failed; from its successful return on, the backup manifest exists and
\* equals the pre-run manifest, whatever the run does and however it ends.
CreateCalls == Cardinality({k \in DOMAIN hist : hist[k].ev = "create"})
C14_SinglePersistentSnapshot ==
  /\ CreateCalls <= 1
  /\ (Exited /\ ~logFault) => CreateCalls = 1
  /\ CreateTrue => existsSync(World, "pkgBak") /\ pkgBak = pre.pkg

\* The run succeeded, the live manifest was upgraded and the backup still
\* holds the pre-run manifest.
C14_Witness ==
  /\ Exited /\ exitCode = 0 /\ CreateTrue
  /\ pkg # pre.pkg /\ pkgBak = pre.pkg

\* C16 -- testBuild() is binary on exit status, seen at the final
\* verification in the runs where no log append failed: testBuild()
\* returned true if and only if its build command exited with status zero.
FinalTestReturned == pc \in {"finalPassed", "finalFailed"}
C16_ExitStatusOnly ==
  (FinalTestReturned /\ ~logFault)
    => (pc = "finalPassed" <=> cmds = << <<"build-legacy", "ok">> >>)

\* C17 (as amended) -- a failure of the clean operation is only a warning:
\* after the clean command has run, the step goes on to the target-version
\* install, with a WARN entry logged when the command failed; the step
\* fails there only when an append to the log failed.
CleanReturned == cmds # <<>> /\ cmds[1][1] = "clean"
CleanFailed == cmds[1][2] = "fail"
C17_CleanFailureIsWarning ==
  CleanReturned
    => /\ pc \in {"installTarget", "upgradeCatch"}
       /\ pc = "upgradeCatch" => (CleanFailed /\ logFault)
       /\ (CleanFailed /\ pc = "installTarget")
            => LastEntry = <<"WARN", "Could not clean dependencies">>

\* The clean command failed and the step is about to install the target
\* version.
C17_Witness ==
  CleanReturned /\ CleanFailed /\ pc = "installTarget" /\ ~logFault

\* C17 as claimed: a failure of the clean operation never makes the step
\* fail; the target-version install comes next.
C17_AsClaimed == (CleanReturned /\ CleanFailed) => pc = "installTarget"

\* C18 -- Termination without retries: every run eventually exits; each
\* step of the path is attempted at most once; within upgradeToVersion
\* each of target install, full install, modern build and legacy build is
\* run at most once, and over a whole loop iteration only the full install
\* and the legacy build are run a second time (the final install or the
\* reinstall after a rollback, and the final verification).
Attempts(i) ==
  Cardinality({k \in DOMAIN hist :
                 hist[k].ev = "upgrade" /\ hist[k].step = i})
InUpgradeToVersion ==
  pc \in {"clean", "installTarget", "installAll", "build", "upgradeCatch",
          "upgraded", "fallback"}
NoRetries ==
  /\ \A i \in DOMAIN upgradePath : Attempts(i) <= 1
  /\ runs["install-target"] <= 1 /\ runs["build-modern"] <= 1
  /\ runs["install-all"] <= 2 /\ runs["build-legacy"] <= 2
  /\ InUpgradeToVersion => \A c \in Commands : runs[c] <= 1
C18_TerminationNoRetries == <>Exited /\ []NoRetries

\* The run has exited after attempting every step of the path once.
C18_Witness ==
  Exited /\ \A i \in DOMAIN upgradePath : Attempts(i) = 1

\* C19 -- when the run ends in DONE with no log append having failed,
\* every cosmetic edit that logged its success (homepage URL,
\* browser-support lists) is still in the manifest on disk, at whichever
\* step the run succeeded.
Edited(ev) ==
  \E k \in DOMAIN hist : hist[k].ev = ev /\ hist[k].note = "edited"
C19_EditsSurvive ==
  (Done /\ ~logFault)
    => /\ Edited("homepage") => (IsDoc(pkg) /\ pkg.homepage = "new")
       /\ Edited("compat") => (IsDoc(pkg) /\ pkg.browserslist = "new")

\* C20 -- the workflow file is patched at most once per run and only
\* after a step has passed its build verification, and when the run ends
\* in failure with no log append having failed the workflow file equals
\* its pre-run content.
WorkflowPatches ==
  Cardinality({k \in DOMAIN hist : hist[k].ev = "workflow"})
C20_WorkflowPatch ==
  /\ WorkflowPatches <= 1
  /\ (WorkflowPatches = 1 \/ workflow # pre.workflow)
       => Has("upgrade", "true")
  /\ (Exited /\ exitCode # 0 /\ ~logFault) => workflow = pre.workflow

====
